---- MODULE Spec2Model ----
(***************************************************************************)
(* ESP8266 gaming time clock: the play-time accounting of                  *)
(* ESP8266_GamingTimeClock.ino as a state machine.  The state is the       *)
(* sketch's globals, the data file on LittleFS, the millis() clock, the    *)
(* wall clock served by NTP, the touch line and the position of the main   *)
(* loop.  One action per handler of loop(), per receiver callback and per  *)
(* step of the environment.                                                *)
(***************************************************************************)
EXTENDS Integers, Sequences, FiniteSets, TLC

VARIABLES
  mins,                   \* the ten time_*_mins counters, by data file key
  dataFile,               \* /data.json on LittleFS
  sm_screen, sm_nextScreen, sm_timeToNextScreen, sm_screen_forceRefresh,
  tft_touchIRQ,           \* flag set by the touch interrupt
  touchPressed,           \* the TOUCH_IRQ line is low (screen pressed)
  option,                 \* local of tft_touch_handle
  t,                      \* t_hour, t_minute, t_day, t_month, t_weekday
  t_minute_last,
  everySecond_tick, everyMinute_tick, ntpUpdate_tick,
  millis,                 \* value returned by millis()
  pc,                     \* position of the sketch: setup or a handler of loop()
  ev,                     \* history: name of the last step taken
  events,                 \* history: number of steps of the environment so far
  sincePower,             \* history: last power notification not yet followed by an input notification
  sinceInc,               \* history: real time since a counter was last incremented (saturates)
  rolled,                 \* history: passes of time_handle that applied the resets for the
                          \* clock reading in t (0, 1, or 2 for two and more)
  fsFault,                \* LittleFS.open fails: "none" (not so far), "now" or "past"
  beforeRestart,          \* history: the counters when the device last went down, until
                          \* the boot that follows has loaded the data file
  sinceDrop,              \* history: "play" or "idle" when the connection was lost (on a PLAY
                          \* screen or not) and no input notification has followed, else "no"
  mounted,                \* LittleFS is mounted: LittleFS.begin() has returned true since the boot
  wall,                   \* the wall clock: what the NTP object reports when it is asked
  wallRolled,             \* history: time_handle has applied the resets since the wall clock came to its reading
  shown                   \* timed ticks the screen has stayed since it was set

vars == << mins, dataFile, sm_screen, sm_nextScreen, sm_timeToNextScreen,
           sm_screen_forceRefresh, tft_touchIRQ, touchPressed, option, t,
           t_minute_last, everySecond_tick, everyMinute_tick, ntpUpdate_tick,
           millis, pc, ev, events, sincePower, sinceInc,
           rolled, fsFault, beforeRestart, sinceDrop, mounted, wall, wallRolled, shown >>

-----------------------------------------------------------------------------
(* Bounds of the model *)

\* number of steps of the environment (time steps, receiver notifications,
\* presses of the screen) in a behaviour
MaxEvents == 3

\* the counters are followed up to this many minutes
MaxMins == 3

\* one-second ticks followed on one screen
MaxShown == 12

-----------------------------------------------------------------------------
(* Program constants *)

CLOCK_ENDSESSION_HOUR == 6
CLOCK_STARTWEEK_DAY == 1

SM_SCREEN_OFF == 0
SM_SCREEN_IDLE == 1
SM_SCREEN_INFO == 2
SM_SCREEN_STATS_ALL == 3
SM_SCREEN_PLAY_PS5 == 10
SM_SCREEN_STATS_PS5 == 11
SM_SCREEN_PLAY_SWITCH == 20
SM_SCREEN_STATS_SWITCH == 21

TIME_PS5_TODAY == "ps_t"
TIME_PS5_WEEK == "ps_w"
TIME_PS5_MONTH == "ps_m"
TIME_PS5_YEAR == "ps_y"
TIME_PS5_SUM == "ps_s"
TIME_SWITCH_TODAY == "sw_t"
TIME_SWITCH_WEEK == "sw_w"
TIME_SWITCH_MONTH == "sw_m"
TIME_SWITCH_YEAR == "sw_y"
TIME_SWITCH_SUM == "sw_s"

PS5Keys == {TIME_PS5_TODAY, TIME_PS5_WEEK, TIME_PS5_MONTH, TIME_PS5_YEAR, TIME_PS5_SUM}
SwitchKeys == {TIME_SWITCH_TODAY, TIME_SWITCH_WEEK, TIME_SWITCH_MONTH,
               TIME_SWITCH_YEAR, TIME_SWITCH_SUM}
Keys == PS5Keys \cup SwitchKeys

\* Time is counted in units of 8 ms, the largest unit that divides the three
\* timer periods and the 2^32 ms period of millis(): a uint32_t of milliseconds
\* wraps at 2^29 units.
TimeUnit == 8
Ms(x) == x \div TimeUnit
UInt32 == 2^29
U32(x) == x % UInt32

\* periods of the three software timers
SecondMs == Ms(1000)
MinuteMs == Ms(60000)
NtpPollMs == Ms(10000)

\* the counters, under the names of the sketch
time_ps5_today_mins == mins[TIME_PS5_TODAY]
time_ps5_week_mins == mins[TIME_PS5_WEEK]
time_ps5_month_mins == mins[TIME_PS5_MONTH]
time_ps5_year_mins == mins[TIME_PS5_YEAR]
time_ps5_sum_mins == mins[TIME_PS5_SUM]
time_switch_today_mins == mins[TIME_SWITCH_TODAY]
time_switch_week_mins == mins[TIME_SWITCH_WEEK]
time_switch_month_mins == mins[TIME_SWITCH_MONTH]
time_switch_year_mins == mins[TIME_SWITCH_YEAR]
time_switch_sum_mins == mins[TIME_SWITCH_SUM]

t_hour == t.hour
t_minute == t.minute
t_day == t.day
t_month == t.month
t_weekday == t.weekday

ZeroMins == [k \in Keys |-> 0]

\* no restart is under way
NoRestart == [valid |-> FALSE, touch |-> FALSE, mins |-> ZeroMins]

\* a step of the history: the operation and, for a notification, its response
Ev(op) == [op |-> op, response |-> << >>]

-----------------------------------------------------------------------------
(* The receiver's responses: strings as sequences of characters.  A         *)
(* response handed to a callback ends with the protocol's carriage return.  *)

NUL == "NUL"
CR == "CR"

ON == << "O", "N" >>
OFF == << "O", "F", "F" >>
AVR_INPUT_PS5 == << "B", "D" >>
AVR_INPUT_SWITCH == << "G", "A", "M", "E" >>

CharAt(s, i) == IF i <= Len(s) THEN s[i] ELSE NUL

Max2(a, b) == IF a >= b THEN a ELSE b
Min2(a, b) == IF a <= b THEN a ELSE b

\* strncmp(s1, s2, n) == 0: the first n characters agree, up to a NUL
strncmp0(s1, s2, n) ==
  \A i \in 1..Min2(n, Max2(Len(s1), Len(s2)) + 1) :
     (\A j \in 1..(i-1) : CharAt(s1, j) # NUL) => CharAt(s1, i) = CharAt(s2, i)

\* the size_t expression len-1 of the callbacks: for len = 0 it is SIZE_MAX, and
\* any n above the lengths of the strings compares them whole
LenMinus1(response) == IF Len(response) >= 1 THEN Len(response) - 1 ELSE 2147483647

STANDBY == << "S", "T", "A", "N", "D", "B", "Y" >>

PowerResponses == { ON \o << CR >>, OFF \o << CR >>, STANDBY \o << CR >> }
InputResponses == { AVR_INPUT_PS5 \o << CR >>, AVR_INPUT_SWITCH \o << CR >>,
                    << "T", "V", CR >>, << "B", CR >>, << CR >> }

-----------------------------------------------------------------------------
(* The data file.  state is "missing", "corrupt" (not parseable) or "json";*)
(* data gives, for a JSON file, the value under each of the ten keys, or    *)
(* Absent when the key is not in the document.                              *)

Absent == -1
EmptyDoc == [k \in Keys |-> Absent]
NoFile == [state |-> "missing", data |-> EmptyDoc]
JsonFile(d) == [state |-> "json", data |-> d]
\* a file deserializeJson reports an error for
CorruptFile == [state |-> "corrupt", data |-> EmptyDoc]

\* (int32_t)data[KEY] stored into a uint32_t: a number that does not fit reads as 0
AsInt32(v) == IF v <= 2147483647 THEN v ELSE 0

\* fs_create_data_file: writes "{}"
fs_create_data_file(f) == JsonFile(EmptyDoc)

\* a save that leaves the PS5's lifetime key as it was in the file
fs_save_data_fileStale(f, m) ==
  IF fsFault = "now" THEN f
  ELSE LET g == IF f.state = "missing" THEN fs_create_data_file(f) ELSE f
       IN  IF g.state # "json" THEN g
           ELSE JsonFile([k \in Keys |-> IF k = TIME_PS5_SUM THEN g.data[k] ELSE m[k]])

\* fs_save_data_file: the file after saving the counters m
fs_save_data_file(f, m) ==
  IF fsFault = "now" THEN f            \* both open() fail: return
  ELSE LET g == IF f.state = "missing" THEN fs_create_data_file(f) ELSE f
       IN  IF g.state # "json" THEN g       \* parse error: nothing is written
           ELSE JsonFile([k \in Keys |-> m[k]])

\* fs_load_data_file: the file and the counters after loading into counters m
fs_load_data_file(f, m) ==
  IF fsFault = "now" THEN [file |-> f, mins |-> m]     \* both open() fail: return
  ELSE LET g == IF f.state = "missing" THEN fs_create_data_file(f) ELSE f
       IN  [file |-> g,
            mins |-> IF g.state # "json" THEN m
                     ELSE [k \in Keys |-> IF g.data[k] # Absent
                                          THEN AsInt32(g.data[k]) ELSE m[k]]]

\* fs_reset_data_file: the counters and the file after the reset
fs_reset_data_file(f, m) ==
  [file |-> fs_save_data_file(f, ZeroMins), mins |-> ZeroMins]

-----------------------------------------------------------------------------
(* The wall clock.  The NTP object reports hours, minutes, day of month,    *)
(* month 1..12 and weekday 0..6 (0 = Sunday).  The model follows 06:00 on   *)
(* three days of 2024 and one other minute; a poll reads any of them.       *)

Dates == { [day |-> 1, month |-> 1, weekDay |-> 1],     \* Mon  1 Jan
           [day |-> 8, month |-> 1, weekDay |-> 1],     \* Mon  8 Jan
           [day |-> 1, month |-> 2, weekDay |-> 4] }    \* Thu  1 Feb

January == 1

\* a minute that is not the minute of the rollover: 06:01
OtherMinute == [hours |-> CLOCK_ENDSESSION_HOUR, minutes |-> 1, day |-> 8, month |-> 1,
                weekDay |-> 1]

\* the readings a poll can return: 06:00 of each date, and 06:01
Readings ==
  { [hours |-> CLOCK_ENDSESSION_HOUR, minutes |-> 0, day |-> d.day, month |-> d.month,
     weekDay |-> d.weekDay] : d \in Dates }
  \cup { OtherMinute }

\* ntp.hours(), ntp.minutes(), ntp.day(), ntp.month(), ntp.weekDay() into t_*
TOf(n) == [hour |-> n.hours, minute |-> n.minutes, day |-> n.day,
           month |-> n.month, weekday |-> n.weekDay]

-----------------------------------------------------------------------------
(* time_handle *)

PlayScreens == {SM_SCREEN_PLAY_PS5, SM_SCREEN_PLAY_SWITCH}
StatsScreens == {SM_SCREEN_STATS_ALL, SM_SCREEN_STATS_PS5, SM_SCREEN_STATS_SWITCH}

\* the screens a touch command or a power-off selects for a while
TimedScreens == StatsScreens \cup {SM_SCREEN_INFO}

\* if (everyMinute_tick < millis())
TimerExpired(tick, now) == tick < now

\* a tick for the PS5 that also counts a minute of today for the Switch
TickBlockSpill(m, screen) ==
  IF screen = SM_SCREEN_PLAY_PS5
  THEN [k \in Keys |-> IF k \in PS5Keys \cup {TIME_SWITCH_TODAY} THEN m[k] + 1 ELSE m[k]]
  ELSE IF screen = SM_SCREEN_PLAY_SWITCH
  THEN [k \in Keys |-> IF k \in SwitchKeys THEN m[k] + 1 ELSE m[k]]
  ELSE m

\* the switch(sm_screen) of the minute tick: the counters after it (the counters
\* are followed up to MaxMins, far below the 2^32 where a uint32_t wraps)
TickBlock(m, screen) ==
  IF screen = SM_SCREEN_PLAY_PS5
  THEN [k \in Keys |-> IF k \in PS5Keys THEN m[k] + 1 ELSE m[k]]
  ELSE IF screen = SM_SCREEN_PLAY_SWITCH
  THEN [k \in Keys |-> IF k \in SwitchKeys THEN m[k] + 1 ELSE m[k]]
  ELSE m

\* if (t_hour == CLOCK_ENDSESSION_HOUR && t_minute == 0)
RolloverDue(clk) == clk.hour = CLOCK_ENDSESSION_HOUR /\ clk.minute = 0

\* resets with the month test nested in the week test
RolloverBlockNested(m, clk) ==
  LET week == clk.weekday = CLOCK_STARTWEEK_DAY
      month == week /\ clk.day = 1
      year == month /\ clk.month = 0
  IN  [k \in Keys |->
         IF k \in {TIME_PS5_TODAY, TIME_SWITCH_TODAY} THEN 0
         ELSE IF k \in {TIME_PS5_WEEK, TIME_SWITCH_WEEK} /\ week THEN 0
         ELSE IF k \in {TIME_PS5_MONTH, TIME_SWITCH_MONTH} /\ month THEN 0
         ELSE IF k \in {TIME_PS5_YEAR, TIME_SWITCH_YEAR} /\ year THEN 0
         ELSE m[k]]

\* resets that carry the week over into today at the start of a week
RolloverBlockCarry(m, clk) ==
  LET week == clk.weekday = CLOCK_STARTWEEK_DAY
      month == clk.day = 1
      year == month /\ clk.month = 0
  IN  [k \in Keys |->
         IF k = TIME_PS5_TODAY THEN (IF week THEN m[TIME_PS5_WEEK] ELSE 0)
         ELSE IF k = TIME_SWITCH_TODAY THEN (IF week THEN m[TIME_SWITCH_WEEK] ELSE 0)
         ELSE IF k \in {TIME_PS5_WEEK, TIME_SWITCH_WEEK} /\ week THEN 0
         ELSE IF k \in {TIME_PS5_MONTH, TIME_SWITCH_MONTH} /\ month THEN 0
         ELSE IF k \in {TIME_PS5_YEAR, TIME_SWITCH_YEAR} /\ year THEN 0
         ELSE m[k]]

\* resets that leave today alone at the start of a week
RolloverBlockKeepToday(m, clk) ==
  LET week == clk.weekday = CLOCK_STARTWEEK_DAY
      month == clk.day = 1
      year == month /\ clk.month = 0
  IN  [k \in Keys |->
         IF k \in {TIME_PS5_TODAY, TIME_SWITCH_TODAY} /\ ~week THEN 0
         ELSE IF k \in {TIME_PS5_WEEK, TIME_SWITCH_WEEK} /\ week THEN 0
         ELSE IF k \in {TIME_PS5_MONTH, TIME_SWITCH_MONTH} /\ month THEN 0
         ELSE IF k \in {TIME_PS5_YEAR, TIME_SWITCH_YEAR} /\ year THEN 0
         ELSE m[k]]

\* the body of that if: the counters after the resets
RolloverBlock(m, clk) ==
  LET week == clk.weekday = CLOCK_STARTWEEK_DAY
      month == clk.day = 1
      year == month /\ clk.month = 0
  IN  [k \in Keys |->
         IF k \in {TIME_PS5_TODAY, TIME_SWITCH_TODAY} THEN 0
         ELSE IF k \in {TIME_PS5_WEEK, TIME_SWITCH_WEEK} /\ week THEN 0
         ELSE IF k \in {TIME_PS5_MONTH, TIME_SWITCH_MONTH} /\ month THEN 0
         ELSE IF k \in {TIME_PS5_YEAR, TIME_SWITCH_YEAR} /\ year THEN 0
         ELSE m[k]]

\* the counters at the end of time_handle
TimeHandleMins(m, screen, tick, now, clk) ==
  LET m1 == IF TimerExpired(tick, now) THEN TickBlock(m, screen) ELSE m
  IN  IF RolloverDue(clk) THEN RolloverBlock(m1, clk) ELSE m1

\* a time_handle that saves at the rollover only
TimeHandleSavesRollover(screen, tick, now, clk) == RolloverDue(clk)

\* doSave at the end of time_handle
TimeHandleSaves(screen, tick, now, clk) ==
  \/ TimerExpired(tick, now) /\ screen \in PlayScreens
  \/ RolloverDue(clk)

time_handle ==
  /\ UNCHANGED << fsFault, beforeRestart, sinceDrop, mounted, wall, shown >>
  /\ wallRolled' = (wallRolled \/ (RolloverDue(t) /\ t = TOf(wall)))
  /\ pc = "time_handle"
  /\ LET fired == TimerExpired(everyMinute_tick, millis)
         counted == fired /\ sm_screen \in PlayScreens
         m2 == TimeHandleMins(mins, sm_screen, everyMinute_tick, millis, t)
     IN  /\ \A k \in Keys : m2[k] <= MaxMins
         /\ mins' = m2
         /\ everyMinute_tick' = IF fired THEN U32(millis + MinuteMs) ELSE everyMinute_tick
         /\ dataFile' = IF TimeHandleSaves(sm_screen, everyMinute_tick, millis, t)
                        THEN fs_save_data_file(dataFile, m2) ELSE dataFile
         /\ sinceInc' = IF counted THEN 0 ELSE sinceInc
         /\ rolled' = IF RolloverDue(t) THEN Min2(2, rolled + 1) ELSE rolled
         /\ ev' = Ev(IF fired THEN "minute_tick" ELSE "time_handle")
  /\ pc' = "tft_handle"
  /\ UNCHANGED << sm_screen, sm_nextScreen, sm_timeToNextScreen, sm_screen_forceRefresh,
                  tft_touchIRQ, touchPressed, option, t, t_minute_last,
                  everySecond_tick, ntpUpdate_tick, millis, events, sincePower >>

-----------------------------------------------------------------------------
(* tft_handle *)

\* tft_handle_nextScreen: the countdown, the screen and the refresh flag after it
tft_handle_nextScreen(ttn, screen, next, force) ==
  IF ttn > 0 THEN [ttn |-> ttn - 1, screen |-> screen, force |-> force]
  ELSE IF ttn = 0 THEN [ttn |-> -1, screen |-> next, force |-> TRUE]
  ELSE [ttn |-> ttn, screen |-> screen, force |-> force]

tft_handle ==
  /\ UNCHANGED << fsFault, beforeRestart, sinceDrop, mounted, wall, wallRolled >>
  /\ pc = "tft_handle"
  /\ LET fire == TimerExpired(everySecond_tick, millis) \/ sm_screen_forceRefresh
         timed == fire /\ ~sm_screen_forceRefresh
         n == IF timed
              THEN tft_handle_nextScreen(sm_timeToNextScreen, sm_screen,
                                         sm_nextScreen, sm_screen_forceRefresh)
              ELSE [ttn |-> sm_timeToNextScreen, screen |-> sm_screen,
                    force |-> sm_screen_forceRefresh]
         redraw == fire /\ (t_minute_last # t_minute \/ n.force)
         stats == redraw /\ n.screen \in StatsScreens
     IN  /\ everySecond_tick' = IF timed THEN U32(millis + SecondMs) ELSE everySecond_tick
         /\ sm_screen' = n.screen
         /\ shown' = IF n.screen # sm_screen THEN 0
                     ELSE IF timed /\ sm_screen \in TimedScreens
                     THEN Min2(MaxShown, shown + 1) ELSE shown
         /\ t_minute_last' = IF redraw /\ ~n.force THEN t_minute ELSE t_minute_last
         /\ sm_nextScreen' = IF stats THEN SM_SCREEN_IDLE ELSE sm_nextScreen
         /\ sm_timeToNextScreen' = IF stats THEN 5 ELSE n.ttn
         /\ sm_screen_forceRefresh' = FALSE
  /\ pc' = "tft_touch_handle"
  /\ ev' = Ev("sketch")
  /\ UNCHANGED << mins, dataFile, tft_touchIRQ, touchPressed, option, t,
                  everyMinute_tick, ntpUpdate_tick, millis, events,
                  sincePower, sinceInc, rolled >>

-----------------------------------------------------------------------------
(* ntp_handle.  ota_handle, the last call of loop(), changes nothing of the  *)
(* state modelled here: the pass ends with ntp_handle.                      *)

ntp_handle ==
  /\ UNCHANGED << fsFault, beforeRestart, sinceDrop, mounted, wall, wallRolled, shown >>
  /\ pc = "ntp_handle"
  /\ IF TimerExpired(ntpUpdate_tick, millis)
     THEN /\ ntpUpdate_tick' = U32(millis + NtpPollMs)
          /\ t' = TOf(wall)
          /\ rolled' = IF t' = t THEN rolled ELSE 0
     ELSE UNCHANGED << ntpUpdate_tick, t, rolled >>
  /\ pc' = "time_handle"
  /\ ev' = Ev("sketch")
  /\ UNCHANGED << mins, dataFile, sm_screen, sm_nextScreen, sm_timeToNextScreen,
                  sm_screen_forceRefresh, tft_touchIRQ, touchPressed, option,
                  t_minute_last, everySecond_tick, everyMinute_tick, millis,
                  events, sincePower, sinceInc >>

-----------------------------------------------------------------------------
(* restart(): ESP.restart() reboots the device; the globals take their      *)
(* initial values again, the file system and the outside world stay.        *)

restartGlobals ==
  /\ beforeRestart' = IF pc = "fs_init" THEN beforeRestart
                      ELSE [valid |-> TRUE, touch |-> (pc = "touch_loop"), mins |-> mins]
  /\ mounted' = FALSE
  /\ mins' = ZeroMins
  /\ sm_screen' = SM_SCREEN_IDLE
  /\ sm_nextScreen' = SM_SCREEN_IDLE
  /\ sm_timeToNextScreen' = 0
  /\ sm_screen_forceRefresh' = FALSE
  /\ tft_touchIRQ' = FALSE
  /\ option' = 0
  /\ t' = [hour |-> 0, minute |-> 0, day |-> 0, month |-> 0, weekday |-> 0]
  /\ t_minute_last' = 0
  /\ everySecond_tick' = 0
  /\ everyMinute_tick' = 0
  /\ ntpUpdate_tick' = 0
  /\ millis' = 0
  /\ pc' = "fs_init"
  /\ sincePower' = "none"
  /\ rolled' = 0
  /\ sinceDrop' = "no"
  /\ shown' = 0
  /\ UNCHANGED << touchPressed, sinceInc, fsFault, wall, wallRolled >>

restart == restartGlobals /\ UNCHANGED dataFile

-----------------------------------------------------------------------------
(* tft_touch_handle.  It blocks in delay() while the screen is pressed; the *)
(* receiver callbacks run during those delays.                              *)

\* the option after the next threshold of pressedTime
OptionNext(o) ==
  CASE o = 0 -> 1 [] o = 1 -> 2 [] o = 2 -> 3 [] o = 3 -> 4
    [] o = 4 -> 5 [] o = 5 -> 6 [] OTHER -> 99

\* if (tft_touchIRQ) ... delay(TFT_TOUCH_DEBOUNCE_TIME)
tft_touch_handle ==
  /\ UNCHANGED << fsFault, beforeRestart, sinceDrop, mounted, wall, wallRolled, shown >>
  /\ pc = "tft_touch_handle"
  /\ pc' = IF tft_touchIRQ THEN "touch_debounce" ELSE "ntp_handle"
  /\ ev' = Ev("sketch")
  /\ UNCHANGED << mins, dataFile, sm_screen, sm_nextScreen, sm_timeToNextScreen,
                  sm_screen_forceRefresh, tft_touchIRQ, touchPressed, option, t,
                  t_minute_last, everySecond_tick, everyMinute_tick, ntpUpdate_tick,
                  millis, events, sincePower, sinceInc, rolled >>

\* after the debounce delay: still pressed, and the screen is Off or Idle ?
touch_debounced ==
  /\ UNCHANGED << fsFault, beforeRestart, sinceDrop, mounted, wall, wallRolled, shown >>
  /\ pc = "touch_debounce"
  /\ tft_touchIRQ' = FALSE
  /\ IF touchPressed /\ sm_screen \in {SM_SCREEN_OFF, SM_SCREEN_IDLE}
     THEN pc' = "touch_loop" /\ option' = 0
     ELSE pc' = "ntp_handle" /\ option' = option
  /\ ev' = Ev("sketch")
  /\ UNCHANGED << mins, dataFile, sm_screen, sm_nextScreen, sm_timeToNextScreen,
                  sm_screen_forceRefresh, touchPressed, t,
                  t_minute_last, everySecond_tick, everyMinute_tick, ntpUpdate_tick,
                  millis, events, sincePower, sinceInc, rolled >>

\* the press time between the threshold that sets option o and the next one
OptionHold(o) == IF o \in {4, 5, 6} THEN Ms(2000) ELSE Ms(1000)

\* while (!digitalRead(TOUCH_IRQ)) delay(1): pressedTime reaches the next threshold
touch_loop ==
  /\ UNCHANGED << fsFault, beforeRestart, sinceDrop, mounted, wall, wallRolled, shown >>
  /\ pc = "touch_loop"
  /\ touchPressed
  /\ option # 99
  /\ option' = OptionNext(option)
  /\ millis' = U32(millis + OptionHold(option))
  /\ sinceInc' = Min2(MinuteMs, sinceInc + OptionHold(option))
  /\ ev' = Ev("sketch")
  /\ UNCHANGED << mins, dataFile, sm_screen, sm_nextScreen, sm_timeToNextScreen,
                  sm_screen_forceRefresh, tft_touchIRQ, touchPressed, t,
                  t_minute_last, everySecond_tick, everyMinute_tick, ntpUpdate_tick,
                  pc, events, sincePower, rolled >>

\* the screen after switch (option), for the options that return
TouchScreen(o, screen) ==
  CASE o = 1 -> SM_SCREEN_STATS_PS5
    [] o = 2 -> SM_SCREEN_STATS_SWITCH
    [] o = 3 -> SM_SCREEN_STATS_ALL
    [] o = 4 -> SM_SCREEN_INFO
    [] o = 6 -> screen
    [] OTHER -> SM_SCREEN_IDLE

\* the screen is released: switch (option)
touch_command ==
  /\ pc = "touch_loop"
  /\ ~touchPressed
  /\ ev' = Ev("touch_command")
  /\ IF option = 5
     THEN restart /\ UNCHANGED events
     ELSE /\ sm_screen' = TouchScreen(option, sm_screen)
          /\ sm_screen_forceRefresh' = TRUE
          /\ shown' = 0
          /\ mins' = IF option = 6 THEN fs_reset_data_file(dataFile, mins).mins ELSE mins
          /\ dataFile' = IF option = 6 THEN fs_reset_data_file(dataFile, mins).file
                         ELSE dataFile
          /\ option' = 0
          /\ pc' = "ntp_handle"
          /\ UNCHANGED << sm_nextScreen, sm_timeToNextScreen, tft_touchIRQ, touchPressed,
                          t, t_minute_last, everySecond_tick, everyMinute_tick,
                          ntpUpdate_tick, millis, events, sincePower, sinceInc,
                          rolled, fsFault, beforeRestart, sinceDrop, mounted, wall, wallRolled >>

-----------------------------------------------------------------------------
(* The receiver callbacks.  They run when the sketch yields: between two    *)
(* passes of loop() and inside the delays of tft_touch_handle.              *)

YieldPoints == {"time_handle", "touch_debounce", "touch_loop"}

\* strncmp(response, ON, len-1) == 0
IsPowerOn(response) == strncmp0(response, ON, LenMinus1(response))
\* else if (strncmp(response, OFF, len-1) == 0)
IsPowerOff(response) == ~IsPowerOn(response) /\ strncmp0(response, OFF, LenMinus1(response))

\* a power-off that leaves the Switch's play screen on
PowerOffScreenStay(screen) ==
  IF screen = SM_SCREEN_PLAY_PS5 THEN SM_SCREEN_STATS_PS5
  ELSE IF screen = SM_SCREEN_PLAY_SWITCH THEN SM_SCREEN_PLAY_SWITCH
  ELSE SM_SCREEN_IDLE

\* the screen a power-off leaves
PowerOffScreen(screen) ==
  IF screen = SM_SCREEN_PLAY_PS5 THEN SM_SCREEN_STATS_PS5
  ELSE IF screen = SM_SCREEN_PLAY_SWITCH THEN SM_SCREEN_STATS_SWITCH
  ELSE SM_SCREEN_IDLE

denon_powerChanged ==
  /\ UNCHANGED << fsFault, beforeRestart, sinceDrop, mounted, wall, wallRolled >>
  /\ pc \in YieldPoints
  /\ events < MaxEvents
  /\ events' = events + 1
  /\ \E response \in PowerResponses :
       IF IsPowerOn(response)
       THEN /\ mins' = fs_load_data_file(dataFile, mins).mins
            /\ dataFile' = fs_load_data_file(dataFile, mins).file
            /\ sincePower' = "on"
            /\ ev' = Ev("power_on")
            /\ UNCHANGED << sm_screen, sm_screen_forceRefresh, shown >>
       ELSE IF IsPowerOff(response)
       THEN /\ dataFile' = fs_save_data_file(dataFile, mins)
            /\ sm_screen' = PowerOffScreen(sm_screen)
            /\ shown' = 0
            /\ sm_screen_forceRefresh' = TRUE
            /\ sincePower' = "off"
            /\ ev' = Ev("power_off")
            /\ UNCHANGED mins
       ELSE /\ ev' = Ev("power_other")
            /\ UNCHANGED << mins, dataFile, sm_screen, sm_screen_forceRefresh, sincePower,
                            shown >>
  /\ UNCHANGED << sm_nextScreen, sm_timeToNextScreen, tft_touchIRQ, touchPressed, option,
                  t, t_minute_last, everySecond_tick, everyMinute_tick, ntpUpdate_tick,
                  millis, pc, sinceInc, rolled >>

\* the screen an input notification selects
InputScreen(response) ==
  IF strncmp0(response, AVR_INPUT_PS5, LenMinus1(response)) THEN SM_SCREEN_PLAY_PS5
  ELSE IF strncmp0(response, AVR_INPUT_SWITCH, LenMinus1(response)) THEN SM_SCREEN_PLAY_SWITCH
  ELSE SM_SCREEN_IDLE

denon_inputChanged ==
  /\ shown' = 0
  /\ UNCHANGED << fsFault, beforeRestart, mounted, wall, wallRolled >>
  /\ sinceDrop' = "no"
  /\ pc \in YieldPoints
  /\ events < MaxEvents
  /\ events' = events + 1
  /\ \E response \in InputResponses :
       /\ dataFile' = fs_save_data_file(dataFile, mins)
       /\ sm_screen' = InputScreen(response)
       /\ sm_screen_forceRefresh' = TRUE
       /\ ev' = [op |-> "input", response |-> response]
  /\ sincePower' = "none"
  /\ UNCHANGED << mins, sm_nextScreen, sm_timeToNextScreen, tft_touchIRQ, touchPressed,
                  option, t, t_minute_last, everySecond_tick, everyMinute_tick,
                  ntpUpdate_tick, millis, pc, sinceInc, rolled >>

\* a lost connection that leaves the screen as it is
DropScreenStay(screen) == screen

\* the screen a lost connection leaves
DropScreen(screen) == SM_SCREEN_IDLE

denon_disconnected ==
  /\ shown' = 0
  /\ UNCHANGED << fsFault, beforeRestart, mounted, wall, wallRolled >>
  /\ sinceDrop' = IF sm_screen \in PlayScreens THEN "play" ELSE "idle"
  /\ pc \in YieldPoints
  /\ events < MaxEvents
  /\ events' = events + 1
  /\ sm_screen' = DropScreen(sm_screen)
  /\ sm_screen_forceRefresh' = TRUE
  /\ ev' = Ev("disconnected")
  /\ UNCHANGED << mins, dataFile, sm_nextScreen, sm_timeToNextScreen, tft_touchIRQ,
                  touchPressed, option, t, t_minute_last, everySecond_tick,
                  everyMinute_tick, ntpUpdate_tick, millis, pc,
                  sincePower, sinceInc, rolled >>

denon_conError ==
  /\ shown' = 0
  /\ UNCHANGED << fsFault, beforeRestart, mounted, wall, wallRolled >>
  /\ sinceDrop' = IF sm_screen \in PlayScreens THEN "play" ELSE "idle"
  /\ pc \in YieldPoints
  /\ events < MaxEvents
  /\ events' = events + 1
  /\ sm_screen' = DropScreen(sm_screen)
  /\ sm_screen_forceRefresh' = TRUE
  /\ ev' = Ev("conError")
  /\ UNCHANGED << mins, dataFile, sm_nextScreen, sm_timeToNextScreen, tft_touchIRQ,
                  touchPressed, option, t, t_minute_last, everySecond_tick,
                  everyMinute_tick, ntpUpdate_tick, millis, pc,
                  sincePower, sinceInc, rolled >>

-----------------------------------------------------------------------------
(* The environment: time and the touch line *)

ElapseSteps == {SecondMs + 1, MinuteMs + 1}

\* millis() shortly before it wraps around
WrapNear == UInt32 - Ms(30000)

\* time passes between two passes of loop(), or while tft_touch_handle blocks
\* the wall clock after the time d has passed: it shows another minute only
\* when a minute has passed.  Between two passes of loop() the time that passes
\* stands for passes in which nothing happens: they ask the NTP object every
\* 10 s and run time_handle, so the wall clock leaves the minute of the rollover
\* only after time_handle has seen it.  While tft_touch_handle blocks, no pass
\* runs and the wall clock moves on unseen.
WallMoves(d) ==
  /\ wall' \in (IF d >= MinuteMs THEN Readings ELSE {wall})
  /\ (pc = "time_handle" /\ RolloverDue(TOf(wall)) /\ wall' # wall) => wallRolled
  /\ wallRolled' = (wallRolled /\ wall' = wall)

Elapse ==
  /\ UNCHANGED << fsFault, beforeRestart, sinceDrop, mounted, shown >>
  /\ pc = "time_handle" \/ (pc = "touch_loop" /\ option = 99)
  /\ events < MaxEvents
  /\ \E d \in ElapseSteps :
       /\ WallMoves(d)
       /\ millis' = U32(millis + d)
       /\ sinceInc' = Min2(MinuteMs, sinceInc + d)
  /\ events' = events + 1
  /\ ev' = Ev("world")
  /\ UNCHANGED << mins, dataFile, sm_screen, sm_nextScreen, sm_timeToNextScreen,
                  sm_screen_forceRefresh, tft_touchIRQ, touchPressed, option, t,
                  t_minute_last, everySecond_tick, everyMinute_tick, ntpUpdate_tick,
                  pc, sincePower, rolled >>

\* one second passes between two passes of loop() while a stats screen or
\* the info screen is shown and the second's tick is not yet due
SecondPasses ==
  /\ UNCHANGED << fsFault, beforeRestart, sinceDrop, mounted, shown >>
  /\ pc = "time_handle"
  /\ sm_screen \in StatsScreens \/ (sm_screen = SM_SCREEN_INFO /\ shown < MaxShown)
  /\ ~TimerExpired(everySecond_tick, millis)
  /\ WallMoves(SecondMs + 1)
  /\ millis' = U32(millis + SecondMs + 1)
  /\ sinceInc' = Min2(MinuteMs, sinceInc + SecondMs + 1)
  /\ ev' = Ev("world")
  /\ UNCHANGED << mins, dataFile, sm_screen, sm_nextScreen, sm_timeToNextScreen,
                  sm_screen_forceRefresh, tft_touchIRQ, touchPressed, option, t,
                  t_minute_last, everySecond_tick, everyMinute_tick, ntpUpdate_tick,
                  pc, events, sincePower, rolled >>

\* the device runs on until millis() is about to wrap (49.7 days after boot)
IdleUntilWrap ==
  /\ UNCHANGED << fsFault, beforeRestart, sinceDrop, mounted, shown >>
  /\ WallMoves(WrapNear - millis)
  /\ pc = "time_handle"
  /\ events < MaxEvents
  /\ millis < WrapNear - MinuteMs
  /\ millis' = WrapNear
  /\ sinceInc' = MinuteMs
  /\ events' = events + 1
  /\ ev' = Ev("world")
  /\ UNCHANGED << mins, dataFile, sm_screen, sm_nextScreen, sm_timeToNextScreen,
                  sm_screen_forceRefresh, tft_touchIRQ, touchPressed, option, t,
                  t_minute_last, everySecond_tick, everyMinute_tick, ntpUpdate_tick,
                  pc, sincePower, rolled >>

\* the device is power-cycled or reset between two passes of loop()
Reboot ==
  /\ pc = "time_handle"
  /\ events < MaxEvents
  /\ events' = events + 1
  /\ ev' = Ev("reboot")
  /\ restart

\* the screen is pressed: falling edge on TOUCH_IRQ, tft_touch_handleIRQ runs
TouchDown ==
  /\ UNCHANGED << fsFault, beforeRestart, sinceDrop, mounted, wall, wallRolled, shown >>
  /\ pc = "time_handle"
  /\ ~touchPressed
  /\ events < MaxEvents
  /\ events' = events + 1
  /\ touchPressed' = TRUE
  /\ tft_touchIRQ' = TRUE
  /\ ev' = Ev("world")
  /\ UNCHANGED << mins, dataFile, sm_screen, sm_nextScreen, sm_timeToNextScreen,
                  sm_screen_forceRefresh, option, t, t_minute_last, everySecond_tick,
                  everyMinute_tick, ntpUpdate_tick, millis, pc,
                  sincePower, sinceInc, rolled >>

TouchUp ==
  /\ UNCHANGED << fsFault, beforeRestart, sinceDrop, mounted, wall, wallRolled, shown >>
  /\ pc \in {"time_handle", "touch_loop"}
  /\ touchPressed
  /\ touchPressed' = FALSE
  /\ ev' = Ev("world")
  /\ UNCHANGED << mins, dataFile, sm_screen, sm_nextScreen, sm_timeToNextScreen,
                  sm_screen_forceRefresh, tft_touchIRQ, option, t, t_minute_last,
                  everySecond_tick, everyMinute_tick, ntpUpdate_tick, millis, pc,
                  events, sincePower, sinceInc, rolled >>

-----------------------------------------------------------------------------
(* Boot *)

\* the data file found at the first boot
InitialFiles ==
  { NoFile, CorruptFile,
    JsonFile([k \in Keys |-> CASE k = TIME_PS5_TODAY -> 1
                               [] k = TIME_SWITCH_TODAY -> 0
                               [] k = TIME_PS5_WEEK -> 2
                               [] OTHER -> Absent]) }

\* the globals as their initialisers leave them (l.127-159)
InitGlobals ==
  /\ mins = ZeroMins
  /\ sm_screen = SM_SCREEN_IDLE
  /\ sm_nextScreen = SM_SCREEN_IDLE
  /\ sm_timeToNextScreen = 0
  /\ sm_screen_forceRefresh = FALSE
  /\ tft_touchIRQ = FALSE
  /\ touchPressed = FALSE
  /\ option = 0
  /\ t = [hour |-> 0, minute |-> 0, day |-> 0, month |-> 0, weekday |-> 0]
  /\ t_minute_last = 0
  /\ everySecond_tick = 0
  /\ everyMinute_tick = 0
  /\ ntpUpdate_tick = 0
  /\ millis = 0
  /\ pc = "fs_init"
  /\ ev = Ev("boot")
  /\ events = 0
  /\ sincePower = "none"
  /\ sinceInc = MinuteMs
  /\ rolled = 0
  /\ fsFault = "none"
  /\ beforeRestart = NoRestart
  /\ sinceDrop = "no"
  /\ mounted = FALSE
  /\ wall = OtherMinute
  /\ wallRolled = FALSE
  /\ shown = 0

Init == InitGlobals /\ dataFile \in InitialFiles

\* the data file of a device that has never counted: none, an empty record,
\* or a record of zeros
FreshFiles == { NoFile, JsonFile(EmptyDoc), JsonFile(ZeroMins) }

InitFresh == InitGlobals /\ dataFile \in FreshFiles

\* a fs_init that goes on with setup() when the mount has failed
fs_initNextGoOn(begin) == "setup"

\* the position of the sketch after fs_init, by the result of LittleFS.begin():
\* the calls of setup() that follow, or the boot after restart()
fs_initNext(begin) == IF begin THEN "setup" ELSE "fs_init"

\* fs_init: while (!LittleFS.begin()) { LittleFS.format(); restart(); }
\* A format that succeeds leaves an empty file system.
fs_init ==
  /\ pc = "fs_init"
  /\ \E begin \in BOOLEAN, format \in BOOLEAN :
       IF begin
       THEN /\ mounted' = TRUE
            /\ pc' = fs_initNext(begin)
            /\ ev' = Ev("fs_init")
            /\ UNCHANGED << mins, dataFile, sm_screen, sm_nextScreen, sm_timeToNextScreen,
                            sm_screen_forceRefresh, tft_touchIRQ, touchPressed, option, t,
                            t_minute_last, everySecond_tick, everyMinute_tick,
                            ntpUpdate_tick, millis, events, sincePower, sinceInc, rolled,
                            fsFault, beforeRestart, sinceDrop, wall, wallRolled, shown >>
       ELSE /\ dataFile' = IF format THEN NoFile ELSE dataFile
            /\ ev' = Ev("mount_failed")
            /\ IF fs_initNext(begin) = "fs_init"
               THEN restartGlobals /\ UNCHANGED events
               ELSE /\ pc' = fs_initNext(begin)
                    /\ UNCHANGED << mins, sm_screen, sm_nextScreen, sm_timeToNextScreen,
                                    sm_screen_forceRefresh, tft_touchIRQ, touchPressed,
                                    option, t, t_minute_last, everySecond_tick,
                                    everyMinute_tick, ntpUpdate_tick, millis, events,
                                    sincePower, sinceInc, rolled, fsFault, beforeRestart,
                                    sinceDrop, mounted, wall, wallRolled, shown >>

\* time_init, the last call of setup()
time_init ==
  /\ pc = "setup"
  /\ everySecond_tick' = U32(millis + SecondMs)
  /\ everyMinute_tick' = U32(millis + MinuteMs)
  /\ mins' = fs_load_data_file(dataFile, mins).mins
  /\ dataFile' = fs_load_data_file(dataFile, mins).file
  /\ pc' = "time_handle"
  /\ ev' = Ev("time_init")
  /\ beforeRestart' = NoRestart
  /\ UNCHANGED << sm_screen, sm_nextScreen, sm_timeToNextScreen, sm_screen_forceRefresh,
                  tft_touchIRQ, touchPressed, option, t, t_minute_last, ntpUpdate_tick,
                  millis, events, sincePower, sinceInc, rolled, fsFault, sinceDrop, mounted, wall, wallRolled, shown >>

Next ==
  \/ fs_init
  \/ time_init
  \/ time_handle
  \/ tft_handle
  \/ tft_touch_handle
  \/ touch_debounced
  \/ touch_loop
  \/ touch_command
  \/ ntp_handle
  \/ denon_powerChanged
  \/ denon_inputChanged
  \/ denon_disconnected
  \/ denon_conError
  \/ Elapse
  \/ Reboot
  \/ TouchDown
  \/ TouchUp

Spec == Init /\ [][Next]_vars

\* LittleFS.open starts to fail (once in a behaviour), and works again
FsFail ==
  /\ pc = "time_handle"
  /\ fsFault = "none"
  /\ fsFault' = "now"
  /\ ev' = Ev("world")
  /\ UNCHANGED << mins, dataFile, sm_screen, sm_nextScreen, sm_timeToNextScreen,
                  sm_screen_forceRefresh, tft_touchIRQ, touchPressed, option, t,
                  t_minute_last, everySecond_tick, everyMinute_tick, ntpUpdate_tick,
                  millis, pc, events, sincePower, sinceInc, rolled, beforeRestart, sinceDrop, mounted, wall, wallRolled, shown >>

FsRecover ==
  /\ pc = "time_handle"
  /\ fsFault = "now"
  /\ fsFault' = "past"
  /\ ev' = Ev("world")
  /\ UNCHANGED << mins, dataFile, sm_screen, sm_nextScreen, sm_timeToNextScreen,
                  sm_screen_forceRefresh, tft_touchIRQ, touchPressed, option, t,
                  t_minute_last, everySecond_tick, everyMinute_tick, ntpUpdate_tick,
                  millis, pc, events, sincePower, sinceInc, rolled, beforeRestart, sinceDrop, mounted, wall, wallRolled, shown >>

\* the same with a time in which the file system refuses to open files
NextFault == Next \/ FsFail \/ FsRecover
SpecFault == Init /\ [][NextFault]_vars

\* the same with the long run up to the wrap-around of millis()
NextLong == Next \/ IdleUntilWrap
SpecLong == Init /\ [][NextLong]_vars

\* the program on a device that has never counted
SpecFresh == InitFresh /\ [][Next]_vars

\* the program with the seconds of a stats or info screen followed one by one
NextScreen == Next \/ SecondPasses
SpecScreen == Init /\ [][NextScreen]_vars

\* the steps of the sketch itself: setup() and the calls of loop()
Sketch ==
  \/ fs_init
  \/ time_init
  \/ time_handle
  \/ tft_handle
  \/ tft_touch_handle
  \/ touch_debounced
  \/ touch_loop
  \/ touch_command
  \/ ntp_handle

\* the program with the touch screen and the clock but a silent receiver: the
\* sketch keeps running (loop() is called again and again) and seconds keep
\* passing
NextTouch == Sketch \/ Elapse \/ SecondPasses \/ TouchDown \/ TouchUp
SpecTouch ==
  Init /\ [][NextTouch]_vars /\ WF_vars(Sketch) /\ SF_vars(SecondPasses)

-----------------------------------------------------------------------------
(* Steps and states the properties speak about *)

\* this step is a pass of time_handle
TimeHandleStep == pc = "time_handle" /\ pc' = "tft_handle"

\* this step is a pass of time_handle in which the minute timer has expired
MinuteTickStep == TimeHandleStep /\ TimerExpired(everyMinute_tick, millis)

\* this step is a pass of time_handle that runs the rollover block
RolloverStep == TimeHandleStep /\ RolloverDue(t)

\* the counters of this pass of time_handle when it reaches the rollover test
AfterTick == IF TimerExpired(everyMinute_tick, millis) THEN TickBlock(mins, sm_screen) ELSE mins

\* this step is a pass of tft_handle
TftHandleStep == pc = "tft_handle" /\ pc' = "tft_touch_handle"

\* a pass of tft_handle fired by the one-second timer, not by a forced refresh
TimedTickStep ==
  TftHandleStep /\ TimerExpired(everySecond_tick, millis) /\ ~sm_screen_forceRefresh

\* this step is a notification of the receiver
InputStep == events' = events + 1 /\ ev'.op = "input"
PowerOffStep == events' = events + 1 /\ ev'.op = "power_off"
\* this step is denon_disconnected or denon_conError
DropStep == events' = events + 1 /\ ev'.op \in {"disconnected", "conError"}

\* this step is the release of the screen that runs the touch command
TouchCommandStep == pc = "touch_loop" /\ ev'.op = "touch_command"

\* this step is the reset command: fs_reset_data_file
ResetStep == TouchCommandStep /\ option = 6

\* this step is a pass of fs_init in which LittleFS.begin() fails
MountFailStep == pc = "fs_init" /\ ev'.op = "mount_failed"

\* this step is the boot's time_init
TimeInitStep == pc = "setup" /\ pc' = "time_handle"

\* this step calls fs_load_data_file: time_init or a power-on notification
LoadStep == TimeInitStep \/ (events' = events + 1 /\ ev'.op = "power_on")

\* this step calls fs_save_data_file
SaveStep ==
  \/ TimeHandleStep /\ TimeHandleSaves(sm_screen, everyMinute_tick, millis, t)
  \/ PowerOffStep
  \/ InputStep
  \/ ResetStep

\* the value a record holds under key k, a missing key counted as 0
Stored(d, k) == IF d[k] = Absent THEN 0 ELSE d[k]

\* the step just taken is a pass of time_handle that found the minute timer expired
TickJustProcessed == ev.op = "minute_tick"

\* the input id of a response: the response without its carriage return
InputId(response) == SubSeq(response, 1, Len(response) - 1)

\* the clock values of the readings
Clocks == { TOf(n) : n \in Readings }

-----------------------------------------------------------------------------
(* Properties *)

\* C1: a minute tick processed by time_handle while the screen is X's PLAY
\* screen, in a pass without rollover, makes each of X's five counters exactly
\* one larger and leaves the other input's five counters unchanged; a minute
\* tick on any other screen changes no counter.  (n ticks add n by induction.)
C1_TickCountsActiveInput ==
  [][ (MinuteTickStep /\ ~RolloverDue(t)) =>
        /\ sm_screen = SM_SCREEN_PLAY_PS5 =>
             \A k \in Keys : mins'[k] = IF k \in PS5Keys THEN mins[k] + 1 ELSE mins[k]
        /\ sm_screen = SM_SCREEN_PLAY_SWITCH =>
             \A k \in Keys : mins'[k] = IF k \in SwitchKeys THEN mins[k] + 1 ELSE mins[k]
        /\ sm_screen \notin PlayScreens => mins' = mins ]_vars

\* two ticks have been counted for the Switch without a rollover, next to PS5
\* counters loaded from the file
C1_Witness ==
  /\ TickJustProcessed /\ sinceInc = 0 /\ rolled = 0
  /\ sm_screen = SM_SCREEN_PLAY_SWITCH
  /\ \A k \in SwitchKeys : mins[k] = 2
  /\ time_ps5_today_mins = 1 /\ time_ps5_week_mins = 2 /\ time_ps5_sum_mins = 0

\* C2: between two consecutive counter increments at least 60000 ms of real
\* time have passed, also around the wrap-around of millis().
C2_OneTickPerMinute ==
  [][ (MinuteTickStep /\ sm_screen \in PlayScreens) => sinceInc >= MinuteMs ]_vars

\* C3: when the rollover fires, for both inputs and whatever the screen: today
\* becomes 0; week becomes 0 if the weekday is CLOCK_STARTWEEK_DAY and otherwise
\* keeps its value; month becomes 0 if the day of the month is 1 and otherwise
\* keeps its value; lifetime keeps its value.
C3_RolloverResets ==
  [][ RolloverStep =>
        /\ mins'[TIME_PS5_TODAY] = 0 /\ mins'[TIME_SWITCH_TODAY] = 0
        /\ \A k \in {TIME_PS5_WEEK, TIME_SWITCH_WEEK} :
             mins'[k] = IF t_weekday = CLOCK_STARTWEEK_DAY THEN 0 ELSE AfterTick[k]
        /\ \A k \in {TIME_PS5_MONTH, TIME_SWITCH_MONTH} :
             mins'[k] = IF t_day = 1 THEN 0 ELSE AfterTick[k]
        /\ \A k \in {TIME_PS5_SUM, TIME_SWITCH_SUM} : mins'[k] = AfterTick[k] ]_vars

\* the rollover has fired on Thursday 1 February: the PS5's today and month
\* are 0, its week and lifetime have kept their values
C3_Witness ==
  /\ ev.op \in {"time_handle", "minute_tick"} /\ rolled = 1
  /\ t_day = 1 /\ t_weekday = 4
  /\ time_ps5_today_mins = 0 /\ time_ps5_month_mins = 0
  /\ time_ps5_week_mins = 3 /\ time_ps5_sum_mins = 1

\* C4: when the rollover fires on day 1 of January the year counter of every
\* input becomes 0; on every other date the rollover leaves the year counters
\* unchanged.
C4_YearResetInJanuary ==
  [][ RolloverStep =>
        \A k \in {TIME_PS5_YEAR, TIME_SWITCH_YEAR} :
          mins'[k] = IF t_day = 1 /\ t_month = January THEN 0 ELSE AfterTick[k] ]_vars

\* C5: within one occurrence of the trigger minute the resets are applied only
\* by the first pass of the main loop that observes it: a later pass in that
\* minute resets nothing, so a tick it counts stays in the counters.
C5_RolloverOncePerMinute ==
  [][ (RolloverStep /\ rolled >= 1) => mins' = AfterTick ]_vars

\* C6: applying the rollover block twice with the same clock values and no
\* minute tick in between gives the counters that applying it once gives.
C6_RolloverIdempotent ==
  \A clk \in Clocks :
    RolloverBlock(RolloverBlock(mins, clk), clk) = RolloverBlock(mins, clk)

\* the rollover block has run in two passes for the same clock values, the
\* second without a tick, and counters it does not reset on that day are not 0
C6_Witness ==
  /\ ev.op = "time_handle" /\ rolled = 2
  /\ t_day = 8
  /\ time_ps5_month_mins = 1 /\ time_ps5_sum_mins = 1 /\ time_ps5_week_mins = 0

\* C7: an input-changed notification saves the counters, then makes the active
\* input PS5 if the reported id is the PS5 input, Switch if it is the Switch
\* input and None (idle screen) for every other id, a prefix of a configured id
\* and the empty response included; it changes none of the ten counters.
C7_InputSelectsByWholeId ==
  [][ InputStep =>
        /\ dataFile' = fs_save_data_file(dataFile, mins)
        /\ mins' = mins
        /\ sm_screen' = IF InputId(ev'.response) = AVR_INPUT_PS5 THEN SM_SCREEN_PLAY_PS5
                        ELSE IF InputId(ev'.response) = AVR_INPUT_SWITCH
                        THEN SM_SCREEN_PLAY_SWITCH
                        ELSE SM_SCREEN_IDLE ]_vars

\* C8: a minute tick between a power-on notification and the next input-changed
\* notification increments no counter, whatever the screen was before.
C8_NoCountAfterPowerOn ==
  [][ (MinuteTickStep /\ sincePower = "on") => \A k \in Keys : mins'[k] <= mins[k] ]_vars

C10_PendingTickCredited ==
  [][ (PowerOffStep /\ TimerExpired(everyMinute_tick, millis) /\ sm_screen \in PlayScreens) =>
        dataFile'.data = TickBlock(mins, sm_screen) ]_vars

\* C11: after the reset command all ten counters are 0 and the data file
\* holds 0 under all ten keys, whatever the counters and the file were before.
C11_ResetZeroesAll ==
  [][ ResetStep => (mins' = ZeroMins /\ dataFile' = JsonFile(ZeroMins)) ]_vars

\* C12: of the touch commands only reset changes a counter or the data file;
\* the restart command leaves the data file as it is and the counters after
\* the boot that follows are the counters before it.
C12_OnlyResetTouchesCounters ==
  [][ /\ (TouchCommandStep /\ option # 6) => dataFile' = dataFile
      /\ (TouchCommandStep /\ option \notin {5, 6}) => mins' = mins
      /\ (TimeInitStep /\ beforeRestart.valid /\ beforeRestart.touch) =>
           mins' = beforeRestart.mins ]_vars

\* C13: the completion of a touch command does not replace a PLAY screen, also
\* when the input became active while the screen was pressed.
C13_TouchKeepsPlayScreen ==
  [][ (TouchCommandStep /\ sm_screen \in PlayScreens) => sm_screen' = sm_screen ]_vars

\* C14: after fs_load_data_file of a parseable record, at boot or at a power-on
\* reload, each counter whose key is present has the stored value and each
\* counter whose key is missing is 0.
C14_LoadZeroesMissingKeys ==
  [][ (LoadStep /\ fsFault # "now" /\ dataFile.state = "json") =>
        \A k \in Keys : mins'[k] = Stored(dataFile.data, k) ]_vars

\* C15: when a load finds the data file missing or unparseable, all ten
\* counters are 0 afterwards and the file is a fresh, valid, empty record.
C15_LoadReplacesBadRecord ==
  [][ (LoadStep /\ dataFile.state \in {"missing", "corrupt"}) =>
        (mins' = ZeroMins /\ dataFile' = JsonFile(EmptyDoc)) ]_vars

\* C16: whatever the state of the data file (stale, missing or unparseable),
\* a step that saves leaves a valid record equal to the counters in memory.
C16_SaveRecovers ==
  [][ SaveStep => dataFile' = JsonFile(mins') ]_vars

\* C17: within a run no counter decreases from one step to the next except at
\* its own reset (the rollover's resets, the reset command); a power-on reload
\* after a failed save does not bring back older values.
C17_CountersMonotone ==
  [][ (pc' # "fs_init" /\ ~ResetStep) =>
        \A k \in Keys :
          \/ mins'[k] >= mins[k]
          \/ RolloverStep /\ mins'[k] = RolloverBlock(AfterTick, t)[k] ]_vars

\* C19: for a valid record and any counters in memory, fs_load_data_file
\* followed at once by fs_save_data_file leaves every key's value as it was,
\* a missing key counted as 0.
C19_LoadSaveRoundTrip ==
  (dataFile.state = "json" /\ fsFault # "now") =>
    LET l == fs_load_data_file(dataFile, mins)
    IN  \A k \in Keys :
          Stored(fs_save_data_file(l.file, l.mins).data, k) = Stored(dataFile.data, k)

\* C20: with a data file that parses and a file system that works, the ten
\* counters after a boot's time_init are the ten counters of the moment the
\* device went down (between two passes of loop(), or by the restart command).
C20_CountersSurviveRestart ==
  [][ (TimeInitStep /\ beforeRestart.valid /\ dataFile.state = "json" /\ fsFault = "none") =>
        mins' = beforeRestart.mins ]_vars

\* the device went down between two passes after a minute was counted for the
\* PS5, and the boot has loaded that minute
C20_Witness ==
  /\ ev.op = "time_init" /\ events = MaxEvents
  /\ time_ps5_sum_mins = 1 /\ time_ps5_today_mins = 2 /\ time_switch_sum_mins = 0

C22_OnlyMountFailureRestarts ==
  [][ /\ MountFailStep => (pc' = "fs_init" /\ ~mounted')
      /\ pc' # "fs_init" => mounted'
      /\ (LoadStep \/ SaveStep) => pc' \in {"time_handle", "tft_handle", "ntp_handle",
                                           "touch_debounce", "touch_loop"}
      /\ (pc # "fs_init" /\ pc' = "fs_init") =>
           (ev'.op = "reboot" \/ (TouchCommandStep /\ option = 5)) ]_vars

\* the device went down after a minute was counted for the PS5; at the boot that
\* followed the mount failed, the format emptied the file system and the device
\* restarted
C22_Witness ==
  /\ ev.op = "mount_failed" /\ pc = "fs_init" /\ ~mounted
  /\ beforeRestart.valid /\ beforeRestart.mins[TIME_PS5_SUM] = 1
  /\ dataFile = NoFile

\* C23: with a working store (the file system has not failed, the record
\* parses), at the end of every pass of loop() and of every receiver handler
\* the value the record holds under each of the ten keys, a missing key counted
\* as 0, is the in-memory counter.
C23_WriteThrough ==
  (pc \in YieldPoints /\ fsFault = "none" /\ dataFile.state = "json") =>
    \A k \in Keys : Stored(dataFile.data, k) = mins[k]

\* a pass of loop() has ended after a minute was counted for the PS5 on top of
\* the loaded counters, and the record holds the new values under all ten keys
C23_Witness ==
  /\ pc = "time_handle" /\ ev.op = "sketch" /\ sinceInc = 0
  /\ time_ps5_today_mins = 2 /\ time_ps5_week_mins = 3 /\ time_ps5_sum_mins = 1
  /\ dataFile.state = "json" /\ dataFile.data = mins

\* C24: the timed screen transition never ends an active session: a pass of
\* tft_handle that finds a PLAY screen leaves it, also when the input became
\* active before the first one-second tick after boot or while the countdown of
\* a stats screen was pending.
C24_TimedTransitionKeepsPlay ==
  [][ (TftHandleStep /\ sm_screen \in PlayScreens) => sm_screen' = sm_screen ]_vars

\* C25: no rollover is missed while the device runs: whenever the wall clock
\* leaves a minute CLOCK_ENDSESSION_HOUR:00, time_handle has applied the resets
\* since the wall clock came to that minute, whatever the main loop was doing.
C25_NoRolloverMissed ==
  [][ (RolloverDue(TOf(wall)) /\ wall' # wall) => wallRolled ]_vars

\* C26: the file is written at most once per mutating event: a pass of
\* time_handle that finds the resets already applied for the clock reading in t
\* and counts no minute does not call fs_save_data_file.
C26_SaveOncePerRollover ==
  [][ (TimeHandleStep /\ rolled >= 1
         /\ ~(TimerExpired(everyMinute_tick, millis) /\ sm_screen \in PlayScreens)) =>
        ~SaveStep ]_vars

\* C29: starting from no record, an empty record or a record of zeros, with
\* a working store, the counters of each input are always ordered:
\* today <= week <= lifetime and today <= month <= year <= lifetime.
C29_CountersNested ==
  /\ time_ps5_today_mins <= time_ps5_week_mins
  /\ time_ps5_week_mins <= time_ps5_sum_mins
  /\ time_ps5_today_mins <= time_ps5_month_mins
  /\ time_ps5_month_mins <= time_ps5_year_mins
  /\ time_ps5_year_mins <= time_ps5_sum_mins
  /\ time_switch_today_mins <= time_switch_week_mins
  /\ time_switch_week_mins <= time_switch_sum_mins
  /\ time_switch_today_mins <= time_switch_month_mins
  /\ time_switch_month_mins <= time_switch_year_mins
  /\ time_switch_year_mins <= time_switch_sum_mins

\* two minutes counted from a fresh record, then the rollover at the start
\* of a week that is not the start of a month: today and week are behind
\* month, year and lifetime
C29_Witness ==
  /\ dataFile.state = "json"
  /\ rolled >= 1
  /\ time_ps5_today_mins = 0
  /\ time_ps5_week_mins = 0
  /\ time_ps5_month_mins = 2
  /\ time_ps5_year_mins = 2
  /\ time_ps5_sum_mins = 2

\* C27: a power-off on the PLAY screen of an input selects that input's
\* stats screen, and on any other screen the idle screen; with no further
\* receiver or touch event the stats screen stays for 5 one-second ticks and
\* the tick after them selects the idle screen.
C27_StatsForFiveTicks ==
  [][ /\ PowerOffStep =>
           sm_screen' = (IF sm_screen = SM_SCREEN_PLAY_PS5 THEN SM_SCREEN_STATS_PS5
                         ELSE IF sm_screen = SM_SCREEN_PLAY_SWITCH
                         THEN SM_SCREEN_STATS_SWITCH ELSE SM_SCREEN_IDLE)
      /\ (TimedTickStep /\ sincePower = "off"
             /\ sm_screen \in {SM_SCREEN_STATS_PS5, SM_SCREEN_STATS_SWITCH}) =>
           sm_screen' = (IF shown < 5 THEN sm_screen ELSE SM_SCREEN_IDLE) ]_vars

\* C28: a touch command is carried out only while the screen is Off or Idle,
\* and with a silent receiver the info screen and the stats screens always
\* give way to the idle screen again.
C28_TouchScreensReturn ==
  /\ [][ TouchCommandStep => sm_screen \in {SM_SCREEN_OFF, SM_SCREEN_IDLE} ]_vars
  /\ (sm_screen \in TimedScreens) ~> (sm_screen = SM_SCREEN_IDLE)

====
